---- MODULE Spec2Model ----
(***************************************************************************)
(* Conversion engine of the docker-run <-> docker-compose converter.       *)
(*                                                                         *)
(* A text is a sequence of one-character strings.  The three variants of   *)
(* convert_docker_run_to_compose (baggage_gbi.py, baggage_gui.py,          *)
(* base/baggage.py), convert_compose_to_docker_run and                     *)
(* determine_input_type are operators over texts and parsed documents; the *)
(* library calls they make (str.strip/lower/startswith, shlex.split,       *)
(* argparse parse_known_args, yaml.dump / yaml.safe_load, shlex.join) are  *)
(* modelled by what they do on the character alphabet used here.           *)
(***************************************************************************)
EXTENDS Integers, Sequences, FiniteSets, TLC

VARIABLES text, pc, input_type, direction, result, back

\* the window of App: which of the two programs runs, the input box, the
\* output box, the title of the output box, the status label, the time since
\* the status label was last configured, the pending after() callbacks and
\* the clipboard
VARIABLES app, input_text, output_text, output_label, status_label, status_age,
          timers, clipboard

appvars == <<app, input_text, output_text, output_label, status_label, status_age,
             timers, clipboard>>

vars == <<text, pc, input_type, direction, result, back, appvars>>

----------------------------------------------------------------------------
(* Bounds of the explored inputs.                                          *)

MaxTokens == 3
MaxLead == 1
MaxList == 2

----------------------------------------------------------------------------
(* Characters and str methods.                                             *)

SP == " "
DQ == "\""
SQ == "'"

\* str.lower on the letters that occur in upper case in the inputs
Lower(c) ==
  CASE c = "D" -> "d" [] c = "O" -> "o" [] c = "C" -> "c" [] c = "K" -> "k"
    [] c = "E" -> "e" [] c = "R" -> "r" [] c = "U" -> "u" [] c = "N" -> "n"
    [] OTHER -> c

LowerStr(s) == [i \in 1..Len(s) |-> Lower(s[i])]

IsSpace(c) == c = SP

RECURSIVE LStrip(_)
LStrip(s) == IF s # <<>> /\ IsSpace(Head(s)) THEN LStrip(Tail(s)) ELSE s

RECURSIVE RStrip(_)
RStrip(s) ==
  IF s # <<>> /\ IsSpace(s[Len(s)]) THEN RStrip(SubSeq(s, 1, Len(s) - 1)) ELSE s

\* str.strip()
Strip(s) == RStrip(LStrip(s))

\* str.startswith(p)
StartsWith(s, p) == Len(s) >= Len(p) /\ SubSeq(s, 1, Len(p)) = p

\* s[n:]
SliceFrom(s, n) == SubSeq(s, n + 1, Len(s))

\* c in s
Contains(s, c) == \E i \in 1..Len(s) : s[i] = c

DockerRun == <<"d", "o", "c", "k", "e", "r", " ", "r", "u", "n">>
DockerRunUpper == <<"D", "O", "C", "K", "E", "R", " ", "R", "U", "N">>

----------------------------------------------------------------------------
(* shlex.split(s): POSIX mode, whitespace_split, no comment characters.    *)
(* The alphabet has no backslash, so the escape states are not modelled.   *)
(* state is " " (between words), "a" (in a word) or the open quote.        *)

TokErr == [ok |-> FALSE, tokens |-> <<>>]

RECURSIVE ShlexScan(_, _, _, _, _, _)
ShlexScan(s, i, state, token, quoted, acc) ==
  IF i > Len(s)
  THEN IF state \in {DQ, SQ}
       THEN TokErr                              \* "No closing quotation"
       ELSE [ok |-> TRUE,
             tokens |-> IF state = "a" /\ (token # <<>> \/ quoted)
                        THEN Append(acc, token) ELSE acc]
  ELSE LET c == s[i] IN
       IF state = SP
       THEN IF IsSpace(c) THEN ShlexScan(s, i + 1, SP, <<>>, FALSE, acc)
            ELSE IF c \in {DQ, SQ} THEN ShlexScan(s, i + 1, c, <<>>, TRUE, acc)
            ELSE ShlexScan(s, i + 1, "a", <<c>>, FALSE, acc)
       ELSE IF state \in {DQ, SQ}
       THEN IF c = state THEN ShlexScan(s, i + 1, "a", token, TRUE, acc)
            ELSE ShlexScan(s, i + 1, state, Append(token, c), TRUE, acc)
       ELSE \* state = "a"
            IF IsSpace(c)
            THEN ShlexScan(s, i + 1, SP, <<>>, FALSE,
                           IF token # <<>> \/ quoted THEN Append(acc, token) ELSE acc)
            ELSE IF c \in {DQ, SQ} THEN ShlexScan(s, i + 1, c, token, TRUE, acc)
            ELSE ShlexScan(s, i + 1, "a", Append(token, c), quoted, acc)

shlex_split(s) == ShlexScan(s, 1, SP, <<>>, FALSE, <<>>)

(* shlex.quote / shlex.join: a token is left bare when it is non-empty and *)
(* has only safe characters; otherwise it is wrapped in single quotes,     *)
(* each single quote inside becoming '"'"'.                                *)

UnsafeChar(c) == c \in {SP, DQ, SQ}

RECURSIVE QuoteBody(_)
QuoteBody(s) ==
  IF s = <<>> THEN <<>>
  ELSE (IF Head(s) = SQ THEN <<SQ, DQ, SQ, DQ, SQ>> ELSE <<Head(s)>>) \o QuoteBody(Tail(s))

shlex_quote(s) ==
  IF s = <<>> THEN <<SQ, SQ>>
  ELSE IF \A i \in 1..Len(s) : ~UnsafeChar(s[i]) THEN s
  ELSE <<SQ>> \o QuoteBody(s) \o <<SQ>>

RECURSIVE JoinWith(_, _)
JoinWith(parts, sep) ==
  IF parts = <<>> THEN <<>>
  ELSE IF Len(parts) = 1 THEN parts[1]
  ELSE parts[1] \o sep \o JoinWith(Tail(parts), sep)

shlex_join(parts) == JoinWith([i \in 1..Len(parts) |-> shlex_quote(parts[i])], <<SP>>)

----------------------------------------------------------------------------
(* argparse: the parser built by convert_docker_run_to_compose and its     *)
(* parse_known_args.  Options is the table of registered option strings in *)
(* add_argument order; nargs is 0 for store_true and 1 for the rest.       *)

Options == <<
  [opt |-> <<"-", "d">>,                                    dest |-> "detach",  nargs |-> 0],
  [opt |-> <<"-", "-", "d", "e", "t", "a", "c", "h">>,      dest |-> "detach",  nargs |-> 0],
  [opt |-> <<"-", "-", "n", "a", "m", "e">>,                dest |-> "name",    nargs |-> 1],
  [opt |-> <<"-", "p">>,                                    dest |-> "publish", nargs |-> 1],
  [opt |-> <<"-", "-", "p", "u", "b", "l", "i", "s", "h">>, dest |-> "publish", nargs |-> 1],
  [opt |-> <<"-", "v">>,                                    dest |-> "volume",  nargs |-> 1],
  [opt |-> <<"-", "-", "v", "o", "l", "u", "m", "e">>,      dest |-> "volume",  nargs |-> 1],
  [opt |-> <<"-", "e">>,                                    dest |-> "env",     nargs |-> 1],
  [opt |-> <<"-", "-", "e", "n", "v">>,                     dest |-> "env",     nargs |-> 1],
  [opt |-> <<"-", "-", "n", "e", "t", "w", "o", "r", "k">>, dest |-> "network", nargs |-> 1],
  [opt |-> <<"-", "-", "r", "e", "s", "t", "a", "r", "t">>, dest |-> "restart", nargs |-> 1],
  [opt |-> <<"-", "-", "r", "m">>,                          dest |-> "rm",      nargs |-> 0] >>

\* None / a str value of a namespace attribute
None == [set |-> FALSE, val |-> <<>>]
Some(v) == [set |-> TRUE, val |-> v]

\* Python truthiness of an attribute that is None or a str
Truthy(o) == o.set /\ o.val # <<>>

\* the namespace before any option is seen (the add_argument defaults)
DefaultNamespace ==
  [detach |-> FALSE, name |-> None, publish |-> <<>>, volume |-> <<>>,
   env |-> <<>>, network |-> None, restart |-> None, rm |-> FALSE]

\* index of the option string equal to s, 0 when there is none
ExactOption(s) ==
  IF \E k \in 1..Len(Options) : Options[k].opt = s
  THEN CHOOSE k \in 1..Len(Options) : Options[k].opt = s
  ELSE 0

\* position of the first c in s, 0 when there is none
IndexOf(s, c) ==
  IF Contains(s, c) THEN CHOOSE i \in 1..Len(s) : s[i] = c /\ \A j \in 1..(i - 1) : s[j] # c
  ELSE 0

NoExplicit == [has |-> FALSE, val |-> <<>>]
Explicit(v) == [has |-> TRUE, val |-> v]

\* ArgumentParser._get_option_tuples: the registered option strings that
\* arg abbreviates, with the explicit argument arg carries
OptionTuples(arg) ==
  IF Len(arg) >= 2 /\ arg[1] = "-" /\ arg[2] = "-"
  THEN LET eq == IndexOf(arg, "=")
           prefix == IF eq > 0 THEN SubSeq(arg, 1, eq - 1) ELSE arg
           expl == IF eq > 0 THEN Explicit(SliceFrom(arg, eq)) ELSE NoExplicit
       IN {[k |-> k, explicit |-> expl] :
             k \in {j \in 1..Len(Options) : StartsWith(Options[j].opt, prefix)}}
  ELSE IF Len(arg) >= 2 /\ arg[1] = "-"
  THEN {[k |-> k, explicit |-> Explicit(SliceFrom(arg, 2))] :
          k \in {j \in 1..Len(Options) : Options[j].opt = SubSeq(arg, 1, 2)}}
       \cup
       {[k |-> k, explicit |-> NoExplicit] :
          k \in {j \in 1..Len(Options) :
                   Options[j].opt # SubSeq(arg, 1, 2) /\ StartsWith(Options[j].opt, arg)}}
  ELSE {}

\* ArgumentParser._parse_optional: "A" for an argument, "O" for an option
\* (k = 0: an option-like string no action owns), "E" for the ambiguity error
ParseOptional(arg) ==
  LET argA == [kind |-> "A", k |-> 0, explicit |-> NoExplicit]
      eq == IndexOf(arg, "=")
      tuples == OptionTuples(arg)
  IN IF arg = <<>> THEN argA
     ELSE IF arg[1] # "-" THEN argA
     ELSE IF ExactOption(arg) # 0
     THEN [kind |-> "O", k |-> ExactOption(arg), explicit |-> NoExplicit]
     ELSE IF Len(arg) = 1 THEN argA
     ELSE IF eq > 0 /\ ExactOption(SubSeq(arg, 1, eq - 1)) # 0
     THEN [kind |-> "O", k |-> ExactOption(SubSeq(arg, 1, eq - 1)),
           explicit |-> Explicit(SliceFrom(arg, eq))]
     ELSE IF Cardinality(tuples) > 1
     THEN [kind |-> "E", k |-> 0, explicit |-> NoExplicit]
     ELSE IF Cardinality(tuples) = 1
     THEN LET t == CHOOSE t \in tuples : TRUE
          IN [kind |-> "O", k |-> t.k, explicit |-> t.explicit]
     ELSE IF Contains(arg, SP) THEN argA
     ELSE [kind |-> "O", k |-> 0, explicit |-> NoExplicit]

\* the Action.__call__ of store_true / store / append
TakeAction(ns, dest, args) ==
  CASE dest = "detach"  -> [ns EXCEPT !.detach = TRUE]
    [] dest = "rm"      -> [ns EXCEPT !.rm = TRUE]
    [] dest = "name"    -> [ns EXCEPT !.name = Some(args[1])]
    [] dest = "network" -> [ns EXCEPT !.network = Some(args[1])]
    [] dest = "restart" -> [ns EXCEPT !.restart = Some(args[1])]
    [] dest = "publish" -> [ns EXCEPT !.publish = Append(@, args[1])]
    [] dest = "volume"  -> [ns EXCEPT !.volume = Append(@, args[1])]
    [] dest = "env"     -> [ns EXCEPT !.env = Append(@, args[1])]

ParseErr == [ok |-> FALSE, ns |-> DefaultNamespace, extras |-> <<>>, stop |-> 0]

\* consume_optional: the option at args[start], whose action is Options[k]
\* (k = 0: none) and whose explicit argument is explicit
RECURSIVE ConsumeOptional(_, _, _, _, _, _, _)
ConsumeOptional(args, parsed, start, k, explicit, ns, extras) ==
  IF k = 0
  THEN [ok |-> TRUE, ns |-> ns, extras |-> Append(extras, args[start]), stop |-> start + 1]
  ELSE IF explicit.has
  THEN IF Options[k].nargs = 0 /\ Options[k].opt[2] # "-" /\ explicit.val # <<>>
       THEN LET next == ExactOption(<<"-", explicit.val[1]>>)
                rest == Tail(explicit.val)
            IN IF next # 0
               THEN ConsumeOptional(args, parsed, start, next,
                                    IF rest = <<>> THEN NoExplicit ELSE Explicit(rest),
                                    TakeAction(ns, Options[k].dest, <<>>), extras)
               ELSE ParseErr                  \* ignored explicit argument
       ELSE IF Options[k].nargs = 1
       THEN [ok |-> TRUE, ns |-> TakeAction(ns, Options[k].dest, <<explicit.val>>),
             extras |-> extras, stop |-> start + 1]
       ELSE ParseErr                          \* ignored explicit argument
  ELSE IF Options[k].nargs = 0
  THEN [ok |-> TRUE, ns |-> TakeAction(ns, Options[k].dest, <<>>),
        extras |-> extras, stop |-> start + 1]
  ELSE IF start + 1 <= Len(args) /\ parsed[start + 1].kind = "A"
  THEN [ok |-> TRUE, ns |-> TakeAction(ns, Options[k].dest, <<args[start + 1]>>),
        extras |-> extras, stop |-> start + 2]
  ELSE ParseErr                               \* expected one argument

\* the loop of _parse_known_args: arguments before the next option string
\* go to extras (the parser has no positionals), then the option is consumed
RECURSIVE ConsumeFrom(_, _, _, _, _)
ConsumeFrom(args, parsed, start, ns, extras) ==
  LET optionIdx == {i \in start..Len(args) : parsed[i].kind = "O"}
  IN IF optionIdx = {}
     THEN [ok |-> TRUE, ns |-> ns, extras |-> extras \o SubSeq(args, start, Len(args)),
           stop |-> Len(args) + 1]
     ELSE LET next == CHOOSE i \in optionIdx : \A j \in optionIdx : i <= j
              r == ConsumeOptional(args, parsed, next, parsed[next].k,
                                   parsed[next].explicit, ns,
                                   extras \o SubSeq(args, start, next - 1))
          IN IF r.ok THEN ConsumeFrom(args, parsed, r.stop, r.ns, r.extras) ELSE ParseErr

\* parser.parse_known_args(args): ok = FALSE when parser.error raised ValueError
parse_known_args(args) ==
  LET parsed == [i \in 1..Len(args) |-> ParseOptional(args[i])]
  IN IF \E i \in 1..Len(args) : parsed[i].kind = "E"
     THEN ParseErr                            \* ambiguous option
     ELSE ConsumeFrom(args, parsed, 1, DefaultNamespace, <<>>)

----------------------------------------------------------------------------
(* Python values of a loaded document: str, None, bool, int, list and dict *)
(* (a dict is the sequence of its items in insertion order).               *)

VStr(s) == [t |-> "str", s |-> s]
VNull == [t |-> "null"]
VBool(b) == [t |-> "bool", b |-> b]
VInt(n) == [t |-> "int", n |-> n]
VList(items) == [t |-> "list", items |-> items]
VMap(items) == [t |-> "map", items |-> items]
KV(k, v) == [k |-> k, v |-> v]

\* Python truthiness
PyTruthy(v) ==
  CASE v.t = "str"  -> v.s # <<>>
    [] v.t = "null" -> FALSE
    [] v.t = "bool" -> v.b
    [] v.t = "int"  -> v.n # 0
    [] v.t = "list" -> v.items # <<>>
    [] v.t = "map"  -> v.items # <<>>
    [] OTHER        -> TRUE

\* key in d, for a dict d and a str key
HasKey(d, key) == \E i \in 1..Len(d.items) : d.items[i].k = VStr(key)

\* d[key] / d.get(key): the value if the key is there, None otherwise
Get(d, key) ==
  IF HasKey(d, key)
  THEN d.items[CHOOSE i \in 1..Len(d.items) : d.items[i].k = VStr(key)].v
  ELSE VNull

S_services == <<"s", "e", "r", "v", "i", "c", "e", "s">>
S_version == <<"v", "e", "r", "s", "i", "o", "n">>
S_38 == <<"3", ".", "8">>
S_myservice == <<"m", "y", "s", "e", "r", "v", "i", "c", "e">>
S_image == <<"i", "m", "a", "g", "e">>
S_command == <<"c", "o", "m", "m", "a", "n", "d">>
S_ports == <<"p", "o", "r", "t", "s">>
S_volumes == <<"v", "o", "l", "u", "m", "e", "s">>
S_environment == <<"e", "n", "v", "i", "r", "o", "n", "m", "e", "n", "t">>
S_networks == <<"n", "e", "t", "w", "o", "r", "k", "s">>
S_restart == <<"r", "e", "s", "t", "a", "r", "t">>
S_external == <<"e", "x", "t", "e", "r", "n", "a", "l">>

----------------------------------------------------------------------------
(* The document codec.  A document text is the tree of its nodes: a scalar *)
(* is written plain or quoted, and a plain scalar is resolved to a type    *)
(* when the document is loaded (YAML 1.1 implicit resolution).             *)

Digits == {"0", "1", "2", "3", "4", "5", "6", "7", "8", "9"}

DigitVal(c) ==
  CASE c = "0" -> 0 [] c = "1" -> 1 [] c = "2" -> 2 [] c = "3" -> 3 [] c = "4" -> 4
    [] c = "5" -> 5 [] c = "6" -> 6 [] c = "7" -> 7 [] c = "8" -> 8 [] c = "9" -> 9

RECURSIVE IntVal(_)
IntVal(s) == IF s = <<>> THEN 0 ELSE 10 * IntVal(SubSeq(s, 1, Len(s) - 1)) + DigitVal(s[Len(s)])

AllDigits(s) == s # <<>> /\ \A i \in 1..Len(s) : s[i] \in Digits

\* yyyy-mm-dd
IsTimestamp(s) ==
  /\ Len(s) = 10
  /\ s[5] = "-" /\ s[8] = "-"
  /\ \A i \in {1, 2, 3, 4, 6, 7, 9, 10} : s[i] \in Digits

\* digits with one decimal point
IsFloat(s) ==
  /\ \A i \in 1..Len(s) : s[i] \in Digits \cup {"."}
  /\ Cardinality({i \in 1..Len(s) : s[i] = "."}) = 1
  /\ \E i \in 1..Len(s) : s[i] \in Digits

\* the tag a plain scalar resolves to
Resolve(s) ==
  IF s = <<>> \/ s = <<"n", "u", "l", "l">> \/ s = <<"~">> THEN "null"
  ELSE IF s \in {<<"n", "o">>, <<"y", "e", "s">>, <<"o", "n">>, <<"o", "f", "f">>,
                 <<"t", "r", "u", "e">>, <<"f", "a", "l", "s", "e">>} THEN "bool"
  ELSE IF AllDigits(s) THEN "int"
  ELSE IF IsFloat(s) THEN "float"
  ELSE IF IsTimestamp(s) THEN "timestamp"
  ELSE "str"

Scalar(style, s) == [n |-> "scalar", style |-> style, s |-> s]
SeqNode(items) == [n |-> "seq", items |-> items]
MapNode(items) == [n |-> "map", items |-> items]
\* a text that is not a well-formed document
InvalidNode == [n |-> "invalid"]

\* the emitter writes a str plain only when it reads back as the same str
PlainOK(s) ==
  /\ s # <<>>
  /\ Resolve(s) = "str"
  /\ ~IsSpace(s[1]) /\ ~IsSpace(s[Len(s)])
  /\ s[1] \notin {DQ, SQ}
  /\ ~\E i \in 1..(Len(s) - 1) : s[i] = ":" /\ IsSpace(s[i + 1])
  /\ s[Len(s)] # ":"
  /\ ~(s[1] = "-" /\ (Len(s) = 1 \/ IsSpace(s[2])))

\* yaml.dump(value, sort_keys=False)
RECURSIVE yaml_dump(_)
yaml_dump(v) ==
  CASE v.t = "str"  -> Scalar(IF PlainOK(v.s) THEN "plain" ELSE "quoted", v.s)
    [] v.t = "null" -> Scalar("plain", <<"n", "u", "l", "l">>)
    [] v.t = "bool" -> Scalar("plain", IF v.b THEN <<"t", "r", "u", "e">>
                                               ELSE <<"f", "a", "l", "s", "e">>)
    [] v.t = "list" -> SeqNode([i \in 1..Len(v.items) |-> yaml_dump(v.items[i])])
    [] v.t = "map"  -> MapNode([i \in 1..Len(v.items) |->
                                 KV(yaml_dump(v.items[i].k), yaml_dump(v.items[i].v))])

\* the value a well-formed node is constructed to
RECURSIVE Construct(_)
Construct(node) ==
  CASE node.n = "scalar" ->
         IF node.style = "quoted" THEN VStr(node.s)
         ELSE CASE Resolve(node.s) = "null" -> VNull
                [] Resolve(node.s) = "bool" ->
                     VBool(node.s \in {<<"y", "e", "s">>, <<"o", "n">>, <<"t", "r", "u", "e">>})
                [] Resolve(node.s) = "int" -> VInt(IntVal(node.s))
                [] Resolve(node.s) = "float" -> [t |-> "float", s |-> node.s]
                [] Resolve(node.s) = "timestamp" -> [t |-> "date", s |-> node.s]
                [] OTHER -> VStr(node.s)
    [] node.n = "seq" -> VList([i \in 1..Len(node.items) |-> Construct(node.items[i])])
    [] node.n = "map" -> VMap([i \in 1..Len(node.items) |->
                                KV(Construct(node.items[i].k), Construct(node.items[i].v))])

\* the text has a syntax error somewhere (yaml.YAMLError)
RECURSIVE Malformed(_)
Malformed(node) ==
  CASE node.n = "invalid" -> TRUE
    [] node.n = "scalar" -> FALSE
    [] node.n = "seq" -> \E i \in 1..Len(node.items) : Malformed(node.items[i])
    [] node.n = "map" -> \E i \in 1..Len(node.items) :
                            Malformed(node.items[i].k) \/ Malformed(node.items[i].v)

\* a plain scalar that resolves to a timestamp whose month or day is out of
\* range: the constructor calls datetime.date, which raises ValueError
BadDate(s) ==
  /\ IsTimestamp(s)
  /\ \/ IntVal(SubSeq(s, 6, 7)) \notin 1..12
     \/ IntVal(SubSeq(s, 9, 10)) \notin 1..31

RECURSIVE ConstructRaises(_)
ConstructRaises(node) ==
  CASE node.n = "invalid" -> FALSE
    [] node.n = "scalar" -> node.style = "plain" /\ BadDate(node.s)
    [] node.n = "seq" -> \E i \in 1..Len(node.items) : ConstructRaises(node.items[i])
    [] node.n = "map" -> \E i \in 1..Len(node.items) :
                            ConstructRaises(node.items[i].k) \/ ConstructRaises(node.items[i].v)

----------------------------------------------------------------------------
(* Texts.  A one-line text is its characters; a document text is its node  *)
(* tree.  The outcome of a call is the returned str (tag "ok" for a        *)
(* conversion output, "error" for an "Error: ..." message) or "fault" for  *)
(* an exception that leaves the function.                                  *)

Line(chars) == [form |-> "line", chars |-> chars]
Doc(node) == [form |-> "yaml", node |-> node]

Ok(t) == [tag |-> "ok", text |-> t]
Error(msg) == [tag |-> "error", msg |-> msg]
\* an error message that quotes a value of the document
ErrorAbout(msg, v) == [tag |-> "error", msg |-> msg, about |-> v]
Fault == [tag |-> "fault"]

\* the first characters of a document text, as far as the prefix test reads
RECURSIVE FirstChars(_)
FirstChars(node) ==
  CASE node.n = "scalar" -> IF node.style = "quoted" THEN <<SQ>> \o node.s ELSE node.s
    [] node.n = "seq" -> <<"-", SP>>
    [] node.n = "map" -> IF node.items = <<>> THEN <<"{", "}">> ELSE FirstChars(node.items[1].k)
    [] node.n = "invalid" -> <<"{">>

Chars(t) == IF t.form = "line" THEN t.chars ELSE FirstChars(t.node)

\* the node tree of a one-line text: a scalar, or no document at all when
\* the line opens a quote
LineNode(chars) ==
  LET s == Strip(chars)
  IN IF s # <<>> /\ s[1] \in {DQ, SQ} THEN InvalidNode ELSE Scalar("plain", s)

NodeOf(t) == IF t.form = "line" THEN LineNode(t.chars) ELSE t.node

\* yaml.safe_load(text)
yaml_safe_load(t) ==
  LET node == NodeOf(t)
  IN IF Malformed(node) THEN [r |-> "YAMLError"]
     ELSE IF ConstructRaises(node) THEN [r |-> "ValueError"]
     ELSE [r |-> "value", v |-> Construct(node)]

----------------------------------------------------------------------------
(* Run -> Compose.                                                         *)

\* d[k] = ... on the key list of a dict: a new key goes last
DictSet(keys, k) == IF \E i \in 1..Len(keys) : keys[i] = k THEN keys ELSE Append(keys, k)

\* del d[k]
RECURSIVE DictDel(_, _)
DictDel(keys, k) ==
  IF keys = <<>> THEN <<>>
  ELSE IF Head(keys) = k THEN DictDel(Tail(keys), k)
  ELSE <<Head(keys)>> \o DictDel(Tail(keys), k)

\* the keys of compose_data['services'] after the --name renaming
ServiceKeys(ns) ==
  IF Truthy(ns.name)
  THEN DictDel(DictSet(<<S_myservice>>, ns.name.val), S_myservice)
  ELSE <<S_myservice>>

StrList(seq) == VList([i \in 1..Len(seq) |-> VStr(seq[i])])

\* the service dict: image, command and the mapped flags, in insertion order
ServiceDict(ns, remaining_args) ==
  VMap(<<KV(VStr(S_image), VStr(remaining_args[1]))>>
       \o (IF Tail(remaining_args) # <<>>
           THEN <<KV(VStr(S_command), VStr(JoinWith(Tail(remaining_args), <<SP>>)))>>
           ELSE <<>>)
       \o (IF ns.publish # <<>> THEN <<KV(VStr(S_ports), StrList(ns.publish))>> ELSE <<>>)
       \o (IF ns.volume # <<>> THEN <<KV(VStr(S_volumes), StrList(ns.volume))>> ELSE <<>>)
       \o (IF ns.env # <<>> THEN <<KV(VStr(S_environment), StrList(ns.env))>> ELSE <<>>)
       \o (IF Truthy(ns.network)
           THEN <<KV(VStr(S_networks), StrList(<<ns.network.val>>))>> ELSE <<>>)
       \o (IF Truthy(ns.restart) THEN <<KV(VStr(S_restart), VStr(ns.restart.val))>> ELSE <<>>))

\* compose_data as it is when yaml.dump is called: every key left in
\* services refers to the one service dict
ComposeData(ns, remaining_args) ==
  LET keys == ServiceKeys(ns)
      service == ServiceDict(ns, remaining_args)
  IN VMap(<<KV(VStr(S_version), VStr(S_38)),
            KV(VStr(S_services), VMap([i \in 1..Len(keys) |-> KV(VStr(keys[i]), service)]))>>
          \o (IF Truthy(ns.network)
              THEN <<KV(VStr(S_networks),
                        VMap(<<KV(VStr(ns.network.val),
                                  VMap(<<KV(VStr(S_external), VBool(TRUE))>>))>>))>>
              ELSE <<>>))

\* the part of convert_docker_run_to_compose after shlex.split, the same
\* in the three files
ArgsToCompose(args) ==
  LET p == parse_known_args(args)
  IN IF ~p.ok THEN Error("Error: Invalid argument found in 'docker run' command.")
     ELSE IF p.extras = <<>> THEN Error("Error: No image specified in the docker run command.")
     ELSE Ok(Doc(yaml_dump(ComposeData(p.ns, p.extras))))

SplitToCompose(run_command_bare) ==
  LET sp == shlex_split(run_command_bare)
  IN IF ~sp.ok THEN Error("Error: Could not parse the command using shlex.")
     ELSE ArgsToCompose(sp.tokens)

\* run_command[len("docker run"):].strip()
run_command_bare(run_command) == Strip(SliceFrom(run_command, Len(DockerRun)))

\* baggage_gbi.py
convert_docker_run_to_compose(t) ==
  IF ~StartsWith(LowerStr(Strip(Chars(t))), DockerRun)
  THEN Error("Error: Input must be a 'docker run' command.")
  ELSE SplitToCompose(run_command_bare(Chars(t)))

\* baggage_gui.py: the prefix is cut only when the untrimmed text starts with it
gui_convert_docker_run_to_compose(t) ==
  IF ~StartsWith(Strip(LowerStr(Chars(t))), DockerRun)
  THEN Error("Error: Input must be a 'docker run' command.")
  ELSE SplitToCompose(IF StartsWith(LowerStr(Chars(t)), DockerRun)
                      THEN run_command_bare(Chars(t)) ELSE Chars(t))

\* base/baggage.py: no prefix is required
base_convert_docker_run_to_compose(t) ==
  SplitToCompose(IF StartsWith(LowerStr(Chars(t)), DockerRun)
                 THEN run_command_bare(Chars(t)) ELSE Chars(t))

----------------------------------------------------------------------------
(* Compose -> Run.                                                         *)

S_None == <<"N", "o", "n", "e">>
S_True == <<"T", "r", "u", "e">>
S_False == <<"F", "a", "l", "s", "e">>

DigitChar(d) ==
  CASE d = 0 -> "0" [] d = 1 -> "1" [] d = 2 -> "2" [] d = 3 -> "3" [] d = 4 -> "4"
    [] d = 5 -> "5" [] d = 6 -> "6" [] d = 7 -> "7" [] d = 8 -> "8" [] d = 9 -> "9"

RECURSIVE IntStr(_)
IntStr(n) == IF n < 10 THEN <<DigitChar(n)>> ELSE Append(IntStr(n \div 10), DigitChar(n % 10))

\* str(v) as the f-string formats a key or a value of the environment dict
PyStr(v) ==
  CASE v.t = "str"  -> v.s
    [] v.t = "null" -> S_None
    [] v.t = "bool" -> IF v.b THEN S_True ELSE S_False
    [] v.t = "int"  -> IntStr(v.n)
    [] v.t \in {"float", "date"} -> v.s
    [] v.t = "list" -> <<"[", "]">>
    [] v.t = "map"  -> <<"{", "}">>

\* 'image' in service: key of a dict, element of a list, substring of a str
InService(service, key) ==
  CASE service.t = "map"  -> HasKey(service, key)
    [] service.t = "list" -> \E i \in 1..Len(service.items) : service.items[i] = VStr(key)
    [] service.t = "str"  -> \E i \in 1..Len(service.s) :
                                i + Len(key) - 1 <= Len(service.s)
                                /\ SubSeq(service.s, i, i + Len(key) - 1) = key
    [] OTHER -> FALSE

\* what `for x in v` yields: the elements of a list, the keys of a dict,
\* the characters of a str
IterItems(v) ==
  CASE v.t = "list" -> v.items
    [] v.t = "map"  -> [i \in 1..Len(v.items) |-> v.items[i].k]
    [] v.t = "str"  -> [i \in 1..Len(v.s) |-> VStr(<<v.s[i]>>)]

Iterable(v) == v.t \in {"list", "map", "str"}

RECURSIVE FlagEach(_, _)
FlagEach(flag, items) ==
  IF items = <<>> THEN <<>>
  ELSE <<VStr(flag), Head(items)>> \o FlagEach(flag, Tail(items))

RestartParts(service) ==
  IF PyTruthy(Get(service, S_restart))
  THEN <<VStr(<<"-", "-", "r", "e", "s", "t", "a", "r", "t">>), Get(service, S_restart)>>
  ELSE <<>>

PortParts(service) ==
  IF PyTruthy(Get(service, S_ports))
  THEN FlagEach(<<"-", "p">>, IterItems(Get(service, S_ports)))
  ELSE <<>>

VolumeParts(service) ==
  IF PyTruthy(Get(service, S_volumes))
  THEN FlagEach(<<"-", "v">>, IterItems(Get(service, S_volumes)))
  ELSE <<>>

EnvParts(service) ==
  LET environment == Get(service, S_environment)
  IN IF ~PyTruthy(environment) THEN <<>>
     ELSE IF environment.t = "map"
     THEN FlagEach(<<"-", "e">>,
                   [i \in 1..Len(environment.items) |->
                      VStr(PyStr(environment.items[i].k) \o <<"=">>
                           \o PyStr(environment.items[i].v))])
     ELSE IF environment.t = "list" THEN FlagEach(<<"-", "e">>, environment.items)
     ELSE <<>>

\* NetworkParts reading the last network of a list instead of the first
NetworkParts_last(service) ==
  LET network_name == Get(service, S_networks)
      flag == VStr(<<"-", "-", "n", "e", "t", "w", "o", "r", "k">>)
  IN IF ~PyTruthy(network_name) THEN <<>>
     ELSE IF network_name.t = "list"
     THEN <<flag, network_name.items[Len(network_name.items)]>>
     ELSE IF network_name.t = "str" THEN <<flag, network_name>>
     ELSE <<>>

NetworkParts(service) ==
  LET network_name == Get(service, S_networks)
      flag == VStr(<<"-", "-", "n", "e", "t", "w", "o", "r", "k">>)
  IN IF ~PyTruthy(network_name) THEN <<>>
     ELSE IF network_name.t = "list" THEN <<flag, network_name.items[1]>>
     ELSE IF network_name.t = "str" THEN <<flag, network_name>>
     ELSE <<>>

\* the command tokens; split is the shlex.split of a command string
CommandParts(service) ==
  LET command == Get(service, S_command)
  IN IF ~PyTruthy(command) THEN <<>>
     ELSE IF command.t = "list" THEN command.items
     ELSE IF command.t = "str"
     THEN [i \in 1..Len(shlex_split(command.s).tokens) |->
             VStr(shlex_split(command.s).tokens[i])]
     ELSE <<>>

\* run_parts just before shlex.join
RunParts(service_name, service) ==
  <<VStr(<<"d", "o", "c", "k", "e", "r">>), VStr(<<"r", "u", "n">>),
    VStr(<<"-", "-", "n", "a", "m", "e">>), service_name>>
  \o RestartParts(service)
  \o PortParts(service)
  \o VolumeParts(service)
  \o EnvParts(service)
  \o NetworkParts(service)
  \o <<Get(service, S_image)>>
  \o CommandParts(service)

\* an exception raised between the image test and the return: a .get on a
\* service that is no dict, a loop over a value that cannot be iterated, an
\* unbalanced quote in the command string, a part that is not a str
BuildRaises(service_name, service) ==
  \/ service.t # "map"
  \/ /\ service.t = "map"
     /\ \/ PyTruthy(Get(service, S_ports)) /\ ~Iterable(Get(service, S_ports))
        \/ PyTruthy(Get(service, S_volumes)) /\ ~Iterable(Get(service, S_volumes))
        \/ /\ Get(service, S_command).t = "str"
           /\ ~shlex_split(Get(service, S_command).s).ok
        \/ LET run_parts == RunParts(service_name, service)
           IN \E i \in 1..Len(run_parts) : run_parts[i].t # "str"

\* baggage_gbi.py
convert_compose_to_docker_run(t) ==
  LET loaded == yaml_safe_load(t)
  IN IF loaded.r = "YAMLError" THEN Error("Error: Invalid YAML format.")
     ELSE IF loaded.r # "value" THEN Fault
     ELSE LET data == loaded.v
          IN IF data.t # "map" \/ ~HasKey(data, S_services)
                \/ ~PyTruthy(Get(data, S_services))
             THEN Error("Error: Invalid Docker Compose structure (missing 'services' or services are empty).")
             ELSE IF Get(data, S_services).t # "map" THEN Fault       \* no .items()
             ELSE LET first == Get(data, S_services).items[1]
                      service_name == first.k
                      service == first.v
                  IN IF service.t \notin {"map", "list", "str"} THEN Fault  \* not a container
                     ELSE IF ~InService(service, S_image)
                     THEN ErrorAbout("Error: Service is missing the required 'image' field.",
                                     service_name)
                     ELSE IF BuildRaises(service_name, service) THEN Fault
                     ELSE Ok(Line(shlex_join(
                            [i \in 1..Len(RunParts(service_name, service)) |->
                               RunParts(service_name, service)[i].s])))

----------------------------------------------------------------------------
(* Input detection.                                                        *)

\* baggage_gbi.py; "raise" when an exception other than yaml.YAMLError
\* leaves yaml.safe_load
determine_input_type(t) ==
  IF StartsWith(LowerStr(Strip(Chars(t))), DockerRun) THEN "docker_run"
  ELSE LET loaded == yaml_safe_load(t)
       IN IF loaded.r = "YAMLError" THEN "unknown"
          ELSE IF loaded.r # "value" THEN "raise"
          ELSE IF loaded.v.t = "map" /\ HasKey(loaded.v, S_services)
                  /\ PyTruthy(Get(loaded.v, S_services))
          THEN "docker_compose"
          ELSE "unknown"

----------------------------------------------------------------------------
(* Inputs: one-line command texts.                                         *)

W_d == <<"-", "d">>
W_rm == <<"-", "-", "r", "m">>
W_name == <<"-", "-", "n", "a", "m", "e">>
W_p == <<"-", "p">>
W_v == <<"-", "v">>
W_e == <<"-", "e">>
W_network == <<"-", "-", "n", "e", "t", "w", "o", "r", "k">>
W_restart == <<"-", "-", "r", "e", "s", "t", "a", "r", "t">>
W_foo == <<"-", "-", "f", "o", "o">>
W_n == <<"-", "-", "n">>
W_net == <<"-", "-", "n", "e", "t">>
W_img == <<"i", "m", "g">>
W_no == <<"n", "o">>
W_empty == <<DQ, DQ>>
W_ab == <<DQ, "a", SP, "b", DQ>>
W_open == <<DQ, "x">>
W_quote == <<DQ, SQ, DQ>>
W_name_eq == W_name \o <<"=">> \o S_myservice
W_p_no == W_p \o W_no

\* the words a command text is made of, as typed (quotes included)
Words ==
  {W_d, W_rm, W_name, W_p, W_v, W_e, W_network, W_restart, W_foo, W_n, W_net,
   W_img, S_myservice, W_no, W_empty, W_ab, W_open, W_quote, W_name_eq, W_p_no}

Prefixes == {DockerRun, DockerRunUpper, <<>>}

RECURSIVE Spaces(_)
Spaces(n) == IF n = 0 THEN <<>> ELSE <<SP>> \o Spaces(n - 1)

RECURSIVE SpacedWords(_)
SpacedWords(ws) == IF ws = <<>> THEN <<>> ELSE <<SP>> \o Head(ws) \o SpacedWords(Tail(ws))

CommandText(lead, prefix, ws) == Line(Spaces(lead) \o prefix \o SpacedWords(ws))

WordSeqs == UNION {[1..k -> Words] : k \in 0..MaxTokens}

CommandTexts ==
  {CommandText(lead, prefix, ws) : lead \in 0..MaxLead, prefix \in Prefixes, ws \in WordSeqs}

----------------------------------------------------------------------------
(* Inputs: document texts.  The fields of the first service are written in *)
(* the reverse of the order in which the command is emitted.               *)

P(s) == Scalar("plain", s)
Q(s) == Scalar("quoted", s)

Absent == <<>>
Field(key, node) == <<KV(P(key), node)>>

D_web == <<"w", "e", "b">>
D_db == <<"d", "b">>
D_always == <<"a", "l", "w", "a", "y", "s">>
D_port == <<"8", "0", ":", "8", "0">>
D_vol == <<"a", ":", "b">>
D_env == <<"A", "=", "B">>
D_net == <<"n", "e", "t">>
D_sh == <<"s", "h">>
D_shc == <<"s", "h", SP, "-", "c">>
D_int == <<"8", "0">>
D_baddate == <<"2", "0", "0", "1", "-", "9", "9", "-", "9", "9">>

NodeSeqs(S, n) == UNION {[1..k -> S] : k \in 0..n}

ImageOpts == {Absent, Field(S_image, P(W_img))}
RestartOpts == {Absent, Field(S_restart, P(D_always)), Field(S_restart, Q(<<>>))}
PortOpts ==
  {Absent} \cup {Field(S_ports, SeqNode(l)) : l \in NodeSeqs({P(D_port), P(W_img)}, MaxList)}
VolumeOpts == {Absent, Field(S_volumes, SeqNode(<<P(D_vol)>>))}
EnvOpts ==
  {Absent,
   Field(S_environment, SeqNode(<<P(D_env), P(<<"C">>)>>)),
   Field(S_environment, MapNode(<<KV(P(<<"A">>), P(<<"B">>))>>)),
   Field(S_environment, MapNode(<<KV(P(<<"A">>), P(<<"a", SP, "b">>)), KV(P(<<"C">>), P(<<>>))>>))}
NetworkOpts ==
  {Absent,
   Field(S_networks, SeqNode(<<P(D_net), P(D_db)>>)),
   Field(S_networks, P(D_net)),
   Field(S_networks, SeqNode(<<>>))}
CommandOpts ==
  {Absent,
   Field(S_command, P(D_shc)),
   Field(S_command, SeqNode(<<P(D_sh), P(<<"a", SP, "b">>)>>)),
   Field(S_command, Q(<<>>))}

\* a second service, which the converter does not read
OtherServices ==
  {<<>>,
   <<KV(P(D_db), MapNode(Field(S_image, P(D_db)) \o Field(S_ports, SeqNode(<<P(D_vol)>>))))>>}

ServiceNodes ==
  {MapNode(cmd \o net \o env \o vol \o prt \o rst \o img) :
     cmd \in CommandOpts, net \in NetworkOpts, env \in EnvOpts, vol \in VolumeOpts,
     prt \in PortOpts, rst \in RestartOpts, img \in ImageOpts}

Manifest(services) == MapNode(Field(S_version, Q(S_38)) \o Field(S_services, services))

\* documents whose first service has values of the documented types
WellTypedDocs ==
  {Doc(Manifest(MapNode(<<KV(P(D_web), sv)>> \o others))) :
     sv \in ServiceNodes, others \in OtherServices}

OneService(sv) == Doc(Manifest(MapNode(<<KV(P(D_web), sv)>>)))
WithImage(fields) == OneService(MapNode(fields \o Field(S_image, P(W_img))))

\* texts that are no manifest, and manifests with values of other types
OddDocs ==
  {Doc(InvalidNode),
   Doc(P(D_baddate)),
   Doc(P(W_img)),
   Doc(SeqNode(<<P(W_img)>>)),
   Doc(MapNode(Field(S_version, Q(S_38)))),
   Doc(Manifest(MapNode(<<>>))),
   Doc(Manifest(P(<<>>))),
   Doc(Manifest(SeqNode(<<P(D_web)>>))),
   Doc(Manifest(P(D_web))),
   Doc(Manifest(P(D_int))),
   OneService(P(<<>>)),
   OneService(P(W_img)),
   OneService(P(<<"m", "y", "i", "m", "a", "g", "e">>)),
   OneService(SeqNode(<<P(S_image)>>)),
   OneService(P(D_int)),
   OneService(MapNode(Field(S_image, P(<<>>)))),
   OneService(MapNode(Field(S_image, Q(<<>>)))),
   OneService(MapNode(Field(S_image, P(D_int)))),
   Doc(Manifest(MapNode(<<KV(P(D_int), MapNode(Field(S_image, P(W_img))))>>))),
   WithImage(Field(S_restart, P(W_no))),
   WithImage(Field(S_restart, Q(W_no))),
   WithImage(Field(S_restart, P(D_int))),
   WithImage(Field(S_ports, P(D_int))),
   WithImage(Field(S_ports, SeqNode(<<P(D_int)>>))),
   WithImage(Field(S_ports, P(D_port))),
   WithImage(Field(S_volumes, P(<<"t", "r", "u", "e">>))),
   WithImage(Field(S_volumes, SeqNode(<<P(<<>>)>>))),
   WithImage(Field(S_environment, P(D_env))),
   WithImage(Field(S_environment, SeqNode(<<MapNode(<<KV(P(<<"A">>), P(<<"B">>))>>)>>))),
   WithImage(Field(S_environment, MapNode(<<KV(P(<<"A">>), P(D_int))>>))),
   WithImage(Field(S_networks, MapNode(<<KV(P(D_net), MapNode(<<>>))>>))),
   WithImage(Field(S_networks, SeqNode(<<P(D_int)>>))),
   WithImage(Field(S_command, Q(W_open))),
   WithImage(Field(S_command, P(D_int))),
   WithImage(Field(S_command, SeqNode(<<P(D_int)>>)))}

ShortCommandTexts ==
  {CommandText(0, prefix, ws) : prefix \in Prefixes, ws \in UNION {[1..k -> Words] : k \in 0..1}}

DocTexts == WellTypedDocs \cup OddDocs \cup ShortCommandTexts

----------------------------------------------------------------------------
(* The engine as a state machine: a text is given, its type is determined, *)
(* one of the converters is applied to it, and the output of a successful  *)
(* conversion is given to the converter of the other direction.            *)

NoResult == [tag |-> "none"]

\* no window is open while the converters are called directly
NoApp ==
  /\ app = "none"
  /\ input_text = Line(<<>>)
  /\ output_text = NoResult
  /\ output_label = ""
  /\ status_label = [text |-> "", fg |-> ""]
  /\ status_age = 0
  /\ timers = <<>>
  /\ clipboard = NoResult

InitWith(texts) ==
  /\ NoApp
  /\ text \in texts
  /\ pc = "input"
  /\ input_type = "none"
  /\ direction = "none"
  /\ result = NoResult
  /\ back = NoResult

Init == InitWith(CommandTexts)

DetermineInputType ==
  /\ pc = "input"
  /\ input_type' = determine_input_type(text)
  /\ pc' = "typed"
  /\ UNCHANGED <<text, direction, result, back, appvars>>

Convert(dir, res) ==
  /\ pc = "typed"
  /\ direction' = dir
  /\ result' = res
  /\ pc' = "converted"
  /\ UNCHANGED <<text, input_type, back, appvars>>

RunToCompose == Convert("run_to_compose", convert_docker_run_to_compose(text))

GuiRunToCompose == Convert("gui_run_to_compose", gui_convert_docker_run_to_compose(text))

BaseRunToCompose == Convert("base_run_to_compose", base_convert_docker_run_to_compose(text))

ComposeToRun == Convert("compose_to_run", convert_compose_to_docker_run(text))

ConvertBack ==
  /\ pc = "converted"
  /\ result.tag = "ok"
  /\ back' = IF direction = "compose_to_run"
             THEN convert_docker_run_to_compose(result.text)
             ELSE convert_compose_to_docker_run(result.text)
  /\ pc' = "back"
  /\ UNCHANGED <<text, input_type, direction, result, appvars>>

Next ==
  \/ DetermineInputType
  \/ RunToCompose
  \/ GuiRunToCompose
  \/ BaseRunToCompose
  \/ ComposeToRun
  \/ ConvertBack

Spec == Init /\ [][Next]_vars

\* the same engine, given documents
InitCompose == InitWith(DocTexts)

SpecCompose == InitCompose /\ [][Next]_vars

----------------------------------------------------------------------------
(* The windows.  App of baggage_gbi.py ("gbi") converts both ways and has  *)
(* a status bar; App of baggage_gui.py ("gui") converts commands only.     *)
(* Time is counted in seconds; an after() callback is the number of        *)
(* seconds left until it is due.                                           *)

\* pending after() callbacks the explored runs go up to
MaxTimers == 2

\* self.after(3000, ...) of update_status and self.after(2000, ...) of the
\* gui's copy_to_clipboard, in seconds
AfterDelay == 3
GuiAfterDelay == 2

S_ErrorColon == <<"E", "r", "r", "o", "r", ":">>
W_Error == SubSeq(S_ErrorColon, 1, 5)

\* sub in s
SubstrIn(sub, s) ==
  \E i \in 1..Len(s) :
    i + Len(sub) - 1 <= Len(s) /\ SubSeq(s, i, i + Len(sub) - 1) = sub

EndsWith(s, p) == Len(p) <= Len(s) /\ SubSeq(s, Len(s) - Len(p) + 1, Len(s)) = p

\* "Error:" in the dumped text of a node: inside a scalar, or a key that is
\* written plain and ends with Error, which the dump follows with a colon
RECURSIVE NodeContainsError(_)
NodeContainsError(node) ==
  CASE node.n = "scalar" -> SubstrIn(S_ErrorColon, node.s)
    [] node.n = "seq" -> \E i \in 1..Len(node.items) : NodeContainsError(node.items[i])
    [] node.n = "map" ->
         \E i \in 1..Len(node.items) :
           \/ NodeContainsError(node.items[i].k)
           \/ NodeContainsError(node.items[i].v)
           \/ /\ node.items[i].k.n = "scalar" /\ node.items[i].k.style = "plain"
              /\ EndsWith(node.items[i].k.s, W_Error)
    [] OTHER -> FALSE

\* a message of the window itself, shown in the output box
Shown(msg) == [tag |-> "shell", msg |-> msg]

\* "Error:" in output_text: every error message of the converters and of
\* perform_conversion is a literal that starts with "Error:"
ContainsErrorColon(output_content) ==
  CASE output_content.tag = "error" -> TRUE
    [] output_content.tag = "ok" ->
         IF output_content.text.form = "line"
         THEN SubstrIn(S_ErrorColon, output_content.text.chars)
         ELSE NodeContainsError(output_content.text.node)
    [] OTHER -> FALSE

\* copy_to_clipboard of both windows lets any content through
CanCopy_any(output_content) == output_content.tag # "none"

\* output_content and "Error:" not in output_content
CanCopy(output_content) ==
  output_content.tag # "none" /\ ~ContainsErrorColon(output_content)

\* "Error" not in text, for the texts update_status is called with: the
\* only one with "Error" in it is the clipboard failure
StatusHasError(status_text) == status_text = "Error: Could not access clipboard."

\* the status texts of perform_conversion
StatusFailed(conversion_direction) ==
  CASE conversion_direction = "Run -> Compose" -> "Conversion failed (Run -> Compose)."
    [] conversion_direction = "Compose -> Run" -> "Conversion failed (Compose -> Run)."
    [] conversion_direction = "Unknown" -> "Conversion failed (Unknown)."

StatusSuccessful(conversion_direction) ==
  CASE conversion_direction = "Run -> Compose" -> "Conversion successful: Run -> Compose"
    [] conversion_direction = "Compose -> Run" -> "Conversion successful: Compose -> Run"
    [] conversion_direction = "Unknown" -> "Conversion successful: Unknown"

\* App.update_status: configure the label, and schedule the clearing
\* callback unless the text has "Error" in it
update_status(status_text, color) ==
  /\ status_label' = [text |-> status_text, fg |-> color]
  /\ status_age' = 0
  /\ timers' = IF ~StatusHasError(status_text) THEN Append(timers, AfterDelay) ELSE timers

display_output(output) == output_text' = output

update_output_label(label) == output_label' = label

\* self.input_text.get("1.0", tk.END).strip()
StripText(t) == IF t.form = "line" THEN Line(Strip(t.chars)) ELSE t

IsBlank(t) == t.form = "line" /\ Strip(t.chars) = <<>>

Unrecognized ==
  Error("Error: Input is neither a recognizable 'Docker Run' command nor a Docker Compose YAML structure.")

\* what perform_conversion of baggage_gbi.py computes from the input
\* string: the direction and the output text; raises is true when an
\* exception leaves determine_input_type or the converter
Conversion(input_string) ==
  LET typ == determine_input_type(input_string)
  IN CASE typ = "raise" ->
            [raises |-> TRUE, conversion_direction |-> "", label |-> "", output_text |-> Fault]
       [] typ = "docker_run" ->
            [raises |-> convert_docker_run_to_compose(input_string) = Fault,
             conversion_direction |-> "Run -> Compose",
             label |-> "Generated Docker Compose YAML:",
             output_text |-> convert_docker_run_to_compose(input_string)]
       [] typ = "docker_compose" ->
            [raises |-> convert_compose_to_docker_run(input_string) = Fault,
             conversion_direction |-> "Compose -> Run",
             label |-> "Generated **Docker Run** command:",
             output_text |-> convert_compose_to_docker_run(input_string)]
       [] OTHER ->
            [raises |-> FALSE, conversion_direction |-> "Unknown",
             label |-> "Conversion Output:", output_text |-> Unrecognized]

\* the rest of perform_conversion once the conversion is computed
ShowConversion(c) ==
  IF c.raises
  THEN UNCHANGED <<output_text, output_label, status_label, status_age, timers>>
  ELSE /\ update_output_label(c.label)
       /\ display_output(c.output_text)
       /\ IF ContainsErrorColon(c.output_text)
          THEN update_status(StatusFailed(c.conversion_direction), "red")
          ELSE update_status(StatusSuccessful(c.conversion_direction), "green")

\* texts a user puts into the input box
AppTexts ==
  {Line(<<>>),
   Line(<<SP>>),
   CommandText(0, DockerRun, <<>>),
   CommandText(0, DockerRun, <<W_img>>),
   CommandText(1, DockerRun, <<W_img>>),
   CommandText(0, DockerRun, <<W_e, S_ErrorColon, W_img>>),
   CommandText(0, DockerRun, <<W_name, W_Error, W_img>>),
   CommandText(0, <<>>, <<W_img>>),
   OneService(MapNode(Field(S_image, P(W_img)))),
   OneService(MapNode(Field(S_environment, SeqNode(<<Q(S_ErrorColon)>>))
                      \o Field(S_image, P(W_img)))),
   OneService(MapNode(Field(S_restart, P(D_always)))),
   Doc(Manifest(SeqNode(<<P(D_web)>>))),
   Doc(P(D_baddate))}

InitApp ==
  /\ text = Line(<<>>)
  /\ pc = "app"
  /\ input_type = "none"
  /\ direction = "none"
  /\ result = NoResult
  /\ back = NoResult
  /\ app \in {"gbi", "gui"}
  /\ input_text = Line(<<>>)
  /\ output_text = NoResult
  /\ output_label = IF app = "gbi" THEN "Conversion Output:" ELSE "Generated docker-compose.yml:"
  /\ status_label = IF app = "gbi" THEN [text |-> "Ready.", fg |-> "#333"]
                    ELSE [text |-> "", fg |-> "green"]
  /\ status_age = 0
  /\ timers = <<>>
  /\ clipboard = NoResult

engine == <<text, pc, input_type, direction, result, back>>

\* the user edits the input box
SetInput ==
  /\ app \in {"gbi", "gui"}
  /\ input_text' \in AppTexts
  /\ UNCHANGED <<engine, app, output_text, output_label, status_label, status_age,
                 timers, clipboard>>

\* App.perform_conversion of baggage_gbi.py
PerformConversion ==
  /\ app = "gbi"
  /\ Len(timers) < MaxTimers
  /\ IF IsBlank(input_text)
     THEN /\ display_output(Shown("Nothing to convert! oof"))
          /\ update_status("Where's the beef?", "red")
          /\ UNCHANGED output_label
     ELSE ShowConversion(Conversion(StripText(input_text)))
  /\ UNCHANGED <<engine, app, input_text, clipboard>>

\* App.copy_to_clipboard of baggage_gbi.py; the clipboard calls succeed
CopyToClipboard ==
  /\ app = "gbi"
  /\ Len(timers) < MaxTimers
  /\ IF CanCopy(output_text)
     THEN clipboard' = output_text /\ update_status("Copied to clipboard!", "blue")
     ELSE IF ContainsErrorColon(output_text)
     THEN UNCHANGED clipboard /\ update_status("Cannot copy an error message.", "red")
     ELSE UNCHANGED clipboard /\ update_status("Nothing to copy.", "orange")
  /\ UNCHANGED <<engine, app, input_text, output_text, output_label>>

\* App.copy_to_clipboard of baggage_gbi.py when clipboard_clear or
\* clipboard_append raises tk.TclError
CopyTclError ==
  /\ app = "gbi"
  /\ Len(timers) < MaxTimers
  /\ CanCopy(output_text)
  /\ clipboard' \in {clipboard, NoResult}
  /\ update_status("Error: Could not access clipboard.", "red")
  /\ UNCHANGED <<engine, app, input_text, output_text, output_label>>

\* App.perform_conversion of baggage_gui.py
GuiPerformConversion ==
  /\ app = "gui"
  /\ IF IsBlank(input_text)
     THEN display_output(Shown("Please enter a command to convert."))
     ELSE IF gui_convert_docker_run_to_compose(input_text) = Fault
     THEN UNCHANGED output_text
     ELSE display_output(gui_convert_docker_run_to_compose(input_text))
  /\ UNCHANGED <<engine, app, input_text, output_label, status_label, status_age,
                 timers, clipboard>>

\* App.copy_to_clipboard of baggage_gui.py
GuiCopyToClipboard ==
  /\ app = "gui"
  /\ Len(timers) < MaxTimers
  /\ IF CanCopy(output_text)
     THEN clipboard' = output_text /\ status_label' = [status_label EXCEPT !.text = "Copied!"]
     ELSE IF ContainsErrorColon(output_text)
     THEN /\ UNCHANGED clipboard
          /\ status_label' = [status_label EXCEPT !.text = "Cannot copy an error."]
     ELSE /\ UNCHANGED clipboard
          /\ status_label' = [status_label EXCEPT !.text = "Nothing to copy."]
  /\ status_age' = 0
  /\ timers' = Append(timers, GuiAfterDelay)
  /\ UNCHANGED <<engine, app, input_text, output_text, output_label>>

\* a due callback runs: lambda: self.status_label.config(text="", fg="#333")
\* in baggage_gbi.py, lambda: self.status_label.config(text="") in
\* baggage_gui.py
TimerFire ==
  /\ timers # <<>>
  /\ Head(timers) = 0
  /\ timers' = Tail(timers)
  /\ status_label' = IF app = "gbi" THEN [text |-> "", fg |-> "#333"]
                     ELSE [status_label EXCEPT !.text = ""]
  /\ status_age' = 0
  /\ UNCHANGED <<engine, app, input_text, output_text, output_label, clipboard>>

\* a second passes; a due callback runs before the next second
Tick ==
  /\ app \in {"gbi", "gui"}
  /\ \A i \in 1..Len(timers) : timers[i] > 0
  /\ timers' = [i \in 1..Len(timers) |-> timers[i] - 1]
  /\ status_age' = IF status_age <= AfterDelay THEN status_age + 1 ELSE status_age
  /\ UNCHANGED <<engine, app, input_text, output_text, output_label, status_label,
                 clipboard>>

NextApp ==
  \/ SetInput
  \/ PerformConversion
  \/ CopyToClipboard
  \/ CopyTclError
  \/ GuiPerformConversion
  \/ GuiCopyToClipboard
  \/ TimerFire
  \/ Tick

SpecApp == InitApp /\ [][NextApp]_vars

----------------------------------------------------------------------------
(* Reading a result.                                                       *)

\* the manifest a reader loads from the output of a run -> compose call
ManifestOf(res) == Construct(res.text.node)

ServicesOf(res) == Get(ManifestOf(res), S_services)

\* the first entry of services; an entry with no name and no field when
\* services has none
FirstEntry(res) ==
  IF ServicesOf(res).t = "map" /\ ServicesOf(res).items # <<>>
  THEN ServicesOf(res).items[1]
  ELSE KV(VNull, VMap(<<>>))

ServiceOf(res) == FirstEntry(res).v

Keys(d) == {d.items[i].k : i \in 1..Len(d.items)}

RunOk == direction = "run_to_compose" /\ result.tag = "ok"

\* the text passes the launch-command test
IsLaunchCommand(t) == StartsWith(LowerStr(LStrip(Chars(t))), DockerRun)

\* the tokens convert_docker_run_to_compose hands to the parser
ArgsOf(t) == shlex_split(run_command_bare(Chars(t))).tokens

ParsedOf(t) == parse_known_args(ArgsOf(t))

(* The flag mapper as section 4.3 describes it: a scan over the leading    *)
(* flags that stops at the first token that is no recognized flag and no   *)
(* value of one.                                                           *)

BoolFlags == {W_d, Options[2].opt, W_rm}
PublishFlags == {W_p, Options[5].opt}
VolumeFlags == {W_v, Options[7].opt}
EnvFlags == {W_e, Options[9].opt}
ValueFlags == {W_name, W_network, W_restart} \cup PublishFlags \cup VolumeFlags \cup EnvFlags

RECURSIVE PositionalStart(_, _)
PositionalStart(toks, i) ==
  IF i > Len(toks) THEN i
  ELSE IF toks[i] \in BoolFlags THEN PositionalStart(toks, i + 1)
  ELSE IF toks[i] \in ValueFlags THEN PositionalStart(toks, i + 2)
  ELSE i

\* the values given to the flags of `flags` before position stop
RECURSIVE FlagValues(_, _, _, _)
FlagValues(toks, i, stop, flags) ==
  IF i >= stop \/ i > Len(toks) THEN <<>>
  ELSE IF toks[i] \in BoolFlags THEN FlagValues(toks, i + 1, stop, flags)
  ELSE (IF toks[i] \in flags /\ i + 1 <= Len(toks) THEN <<toks[i + 1]>> ELSE <<>>)
       \o FlagValues(toks, i + 2, stop, flags)

ListOrAbsent(seq) == IF seq = <<>> THEN VNull ELSE StrList(seq)

\* the value a scalar flag ends with: its last value, nothing when the flag
\* is not given
ScalarOf(vals) == IF vals = <<>> THEN <<>> ELSE vals[Len(vals)]

----------------------------------------------------------------------------
(* Claims.                                                                 *)

\* C1: flag mapping stops at the first token that is neither a recognized
\* flag nor the value of one; that token is the image, every token after it
\* is part of the command in its original order, and a recognized flag after
\* the image changes no ports, volumes, environment, name, network or restart
\* policy.
C1_PositionalTail ==
  RunOk =>
    LET toks == ArgsOf(text)
        i == PositionalStart(toks, 1)
        service == ServiceOf(result)
    IN /\ i <= Len(toks)
       /\ Get(service, S_image) = VStr(toks[i])
       /\ Get(service, S_command) =
            IF i < Len(toks) THEN VStr(JoinWith(SubSeq(toks, i + 1, Len(toks)), <<SP>>))
            ELSE VNull
       /\ Get(service, S_ports) = ListOrAbsent(FlagValues(toks, 1, i, PublishFlags))
       /\ Get(service, S_volumes) = ListOrAbsent(FlagValues(toks, 1, i, VolumeFlags))
       /\ Get(service, S_environment) = ListOrAbsent(FlagValues(toks, 1, i, EnvFlags))
       /\ FirstEntry(result).k =
            VStr(IF ScalarOf(FlagValues(toks, 1, i, {W_name})) = <<>> THEN S_myservice
                 ELSE ScalarOf(FlagValues(toks, 1, i, {W_name})))
       /\ Get(service, S_networks) =
            IF ScalarOf(FlagValues(toks, 1, i, {W_network})) = <<>> THEN VNull
            ELSE StrList(<<ScalarOf(FlagValues(toks, 1, i, {W_network}))>>)
       /\ Get(service, S_restart) =
            IF ScalarOf(FlagValues(toks, 1, i, {W_restart})) = <<>> THEN VNull
            ELSE VStr(ScalarOf(FlagValues(toks, 1, i, {W_restart})))

\* C2: a successful run -> compose conversion renders exactly one service,
\* keyed by the --name value when --name is supplied and by myservice
\* otherwise, and that entry holds the image.
C2_OneServiceKeyedByName ==
  RunOk =>
    /\ ServicesOf(result).t = "map"
    /\ Len(ServicesOf(result).items) = 1
    /\ FirstEntry(result).k =
         VStr(IF ParsedOf(text).ns.name.set THEN ParsedOf(text).ns.name.val ELSE S_myservice)
    /\ HasKey(ServiceOf(result), S_image)

\* C3: both converters return an output or an error message for every
\* text; no exception leaves them.
C3_NoFault == result.tag # "fault" /\ back.tag # "fault"

Normal(o) == IF Truthy(o) THEN o.val ELSE <<>>

\* C4: converting the manifest of a launch command back succeeds, and the
\* command it gives maps to the same image, name, ports, volumes,
\* environment entries, network and restart policy.
C4_RoundTrip ==
  (pc = "back" /\ direction = "run_to_compose") =>
    /\ back.tag = "ok"
    /\ LET p1 == ParsedOf(text)
           p2 == ParsedOf(back.text)
       IN /\ IsLaunchCommand(back.text)
          /\ p2.ok
          /\ p2.extras # <<>> /\ p2.extras[1] = p1.extras[1]
          /\ Normal(p2.ns.name) = (IF Truthy(p1.ns.name) THEN p1.ns.name.val ELSE S_myservice)
          /\ p2.ns.publish = p1.ns.publish
          /\ p2.ns.volume = p1.ns.volume
          /\ p2.ns.env = p1.ns.env
          /\ Normal(p2.ns.network) = Normal(p1.ns.network)
          /\ Normal(p2.ns.restart) = Normal(p1.ns.restart)

\* C5: for a text accepted as a launch command, the parser is given exactly
\* the tokens of the text after the `docker run` prefix, so the result is
\* that of converting the text that follows the prefix.
C5_PrefixStripped ==
  (direction \in {"run_to_compose", "gui_run_to_compose"} /\ IsLaunchCommand(text)) =>
    result = SplitToCompose(SliceFrom(LStrip(Chars(text)), Len(DockerRun)))

NonEmptyStr(v) == v.t = "str" /\ v.s # <<>>

\* the first service of a loaded document, when the document is a manifest
\* whose first service is a mapping
FirstServiceOf(loaded) ==
  IF /\ loaded.r = "value" /\ loaded.v.t = "map"
     /\ Get(loaded.v, S_services).t = "map" /\ Get(loaded.v, S_services).items # <<>>
     /\ Get(loaded.v, S_services).items[1].v.t = "map"
  THEN <<Get(loaded.v, S_services).items[1]>>
  ELSE <<>>

InputService == FirstServiceOf(yaml_safe_load(text))

\* C6: a conversion succeeds only with a non-empty image: run -> compose
\* answers the missing-image error when no positional remains, compose ->
\* run answers an error naming the first service when it has no image, and
\* no successful conversion yields an absent, null or empty image.
C6_ImageRequired ==
  /\ (direction = "run_to_compose" /\ IsLaunchCommand(text)
      /\ shlex_split(run_command_bare(Chars(text))).ok
      /\ ParsedOf(text).ok /\ ParsedOf(text).extras = <<>>)
       => result = Error("Error: No image specified in the docker run command.")
  /\ (direction = "compose_to_run" /\ InputService # <<>>
      /\ ~HasKey(InputService[1].v, S_image))
       => (result.tag = "error" /\ "about" \in DOMAIN result
           /\ result.about = InputService[1].k)
  /\ RunOk => NonEmptyStr(Get(ServiceOf(result), S_image))
  /\ (direction = "compose_to_run" /\ result.tag = "ok" /\ InputService # <<>>)
       => NonEmptyStr(Get(InputService[1].v, S_image))

\* C7: classification never raises; a text is a command when it begins
\* with `docker run`, else a manifest exactly when it parses to a mapping
\* with a non-empty services key, else unknown (a parse failure included).
C7_ClassifyTotal ==
  pc # "input" =>
    input_type =
      IF IsLaunchCommand(text) THEN "docker_run"
      ELSE IF /\ yaml_safe_load(text).r = "value"
              /\ yaml_safe_load(text).v.t = "map"
              /\ HasKey(yaml_safe_load(text).v, S_services)
              /\ PyTruthy(Get(yaml_safe_load(text).v, S_services))
      THEN "docker_compose"
      ELSE "unknown"

FlagError == Error("Error: Invalid argument found in 'docker run' command.")

\* C8: flag mapping fails exactly when a value-taking flag is the last
\* token; unknown dash-prefixed tokens are never an error.
C8_UnknownTokensNoError ==
  (direction = "run_to_compose" /\ IsLaunchCommand(text)
   /\ shlex_split(run_command_bare(Chars(text))).ok) =>
    LET toks == ArgsOf(text)
    IN (result = FlagError) <=> (toks # <<>> /\ toks[Len(toks)] \in ValueFlags)

\* C10: the service holds a field exactly when its option was supplied,
\* never an empty list or null; the top-level networks key is there exactly
\* when --network was given and declares that one network external; -d and
\* --rm leave no trace; with no flags the manifest is one service myservice
\* whose only field is image.
C10_FieldPresence ==
  RunOk =>
    LET p == ParsedOf(text)
        manifest == ManifestOf(result)
        service == ServiceOf(result)
    IN /\ HasKey(service, S_command) <=> Len(p.extras) > 1
       /\ HasKey(service, S_ports) <=> p.ns.publish # <<>>
       /\ HasKey(service, S_volumes) <=> p.ns.volume # <<>>
       /\ HasKey(service, S_environment) <=> p.ns.env # <<>>
       /\ HasKey(service, S_networks) <=> Truthy(p.ns.network)
       /\ HasKey(service, S_restart) <=> Truthy(p.ns.restart)
       /\ \A i \in 1..Len(service.items) :
            service.items[i].v # VNull /\ service.items[i].v # VList(<<>>)
       /\ Keys(service) \subseteq
            {VStr(S_image), VStr(S_command), VStr(S_ports), VStr(S_volumes),
             VStr(S_environment), VStr(S_networks), VStr(S_restart)}
       /\ Keys(manifest) \subseteq {VStr(S_version), VStr(S_services), VStr(S_networks)}
       /\ HasKey(manifest, S_networks) <=> Truthy(p.ns.network)
       /\ Truthy(p.ns.network) =>
            Get(manifest, S_networks) =
              VMap(<<KV(VStr(p.ns.network.val), VMap(<<KV(VStr(S_external), VBool(TRUE))>>))>>)
       /\ (p.ns = DefaultNamespace /\ Len(p.extras) = 1) =>
            ServicesOf(result) =
              VMap(<<KV(VStr(S_myservice), VMap(<<KV(VStr(S_image), VStr(p.extras[1]))>>))>>)

(* The emission order of section 4.5, for a service whose fields have    *)
(* the types section 6 gives them.                                         *)

StrItems(v) == v.t = "list" /\ \A i \in 1..Len(v.items) : v.items[i].t = "str"

NonEmpty(v) == v \notin {VNull, VStr(<<>>), VList(<<>>), VMap(<<>>)}

DocumentedService(service) ==
  /\ service.t = "map"
  /\ Get(service, S_image).t = "str"
  /\ Get(service, S_restart).t \in {"null", "str"}
  /\ Get(service, S_ports) = VNull \/ StrItems(Get(service, S_ports))
  /\ Get(service, S_volumes) = VNull \/ StrItems(Get(service, S_volumes))
  /\ \/ Get(service, S_environment) = VNull
     \/ StrItems(Get(service, S_environment))
     \/ /\ Get(service, S_environment).t = "map"
        /\ \A i \in 1..Len(Get(service, S_environment).items) :
             /\ Get(service, S_environment).items[i].k.t = "str"
             /\ Get(service, S_environment).items[i].v.t = "str"
  /\ \/ Get(service, S_networks) = VNull
     \/ StrItems(Get(service, S_networks))
     \/ Get(service, S_networks).t = "str"
  /\ \/ Get(service, S_command) = VNull
     \/ StrItems(Get(service, S_command))
     \/ Get(service, S_command).t = "str"

\* flag value flag value ... for the strings of a list
Each(flag, strs) ==
  [i \in 1..(2 * Len(strs)) |-> IF i % 2 = 1 THEN flag ELSE strs[i \div 2]]

Strs(v) == [i \in 1..Len(v.items) |-> v.items[i].s]

ExpectedEnv(environment) ==
  IF ~NonEmpty(environment) THEN <<>>
  ELSE IF environment.t = "map"
  THEN Each(W_e, [i \in 1..Len(environment.items) |->
                    environment.items[i].k.s \o <<"=">> \o environment.items[i].v.s])
  ELSE Each(W_e, Strs(environment))

ExpectedNetwork(networks) ==
  IF ~NonEmpty(networks) THEN <<>>
  ELSE IF networks.t = "list" THEN <<W_network, networks.items[1].s>>
  ELSE <<W_network, networks.s>>

ExpectedCommand(command) ==
  IF ~NonEmpty(command) THEN <<>>
  ELSE IF command.t = "list" THEN Strs(command)
  ELSE shlex_split(command.s).tokens

ExpectedTokens(name, service) ==
  <<SubSeq(DockerRun, 1, 6), SubSeq(DockerRun, 8, 10), W_name, name>>
  \o (IF NonEmpty(Get(service, S_restart)) THEN <<W_restart, Get(service, S_restart).s>> ELSE <<>>)
  \o (IF NonEmpty(Get(service, S_ports)) THEN Each(W_p, Strs(Get(service, S_ports))) ELSE <<>>)
  \o (IF NonEmpty(Get(service, S_volumes)) THEN Each(W_v, Strs(Get(service, S_volumes))) ELSE <<>>)
  \o ExpectedEnv(Get(service, S_environment))
  \o ExpectedNetwork(Get(service, S_networks))
  \o <<Get(service, S_image).s>>
  \o ExpectedCommand(Get(service, S_command))

AcceptedService(first) ==
  /\ first # <<>>
  /\ first[1].k.t = "str"
  /\ DocumentedService(first[1].v)

AcceptedManifest ==
  /\ direction = "compose_to_run"
  /\ result.tag = "ok"
  /\ AcceptedService(InputService)

EmitsInOrder(first) ==
  AcceptedService(first) =>
    /\ result.text.form = "line"
    /\ shlex_split(result.text.chars) =
         [ok |-> TRUE, tokens |-> ExpectedTokens(first[1].k.s, first[1].v)]

FullService(service) ==
  /\ NonEmpty(Get(service, S_restart))
  /\ Get(service, S_ports).t = "list"
  /\ Len(Get(service, S_ports).items) = 2
  /\ NonEmpty(Get(service, S_volumes))
  /\ Get(service, S_environment).t = "map"
  /\ Get(service, S_networks).t = "list"
  /\ Len(Get(service, S_networks).items) = 2
  /\ Get(service, S_command).t = "str"
  /\ NonEmpty(Get(service, S_command))

----------------------------------------------------------------------------
(* Claims about the windows.                                               *)

\* the output box shows an error of a converter or the unrecognized-input
\* error
ShowsError == output_text.tag = "error"

Copy == CopyToClipboard \/ CopyTclError \/ GuiCopyToClipboard

RefusedCopy == {"Cannot copy an error message.", "Cannot copy an error."}

CopyOfErrorRefused ==
  (ShowsError /\ Copy) => (clipboard' = clipboard /\ status_label'.text \in RefusedCopy)

\* C11: over every sequence of Convert and Copy actions the clipboard never
\* holds an error result, and a Copy while the output box shows an error
\* leaves the clipboard unchanged and reports that an error cannot be
\* copied.
C11_NoErrorCopied == [](clipboard.tag # "error") /\ [][CopyOfErrorRefused]_vars

\* an output was copied, then a conversion failed and its copy was refused
C11_Witness ==
  /\ ShowsError
  /\ status_label.text \in RefusedCopy
  /\ clipboard.tag = "ok"

\* a status text with Error in it or one that reports a failed conversion
IsErrorStatus(status_text) ==
  \/ status_text = "Error: Could not access clipboard."
  \/ status_text \in {StatusFailed(d) : d \in {"Run -> Compose", "Compose -> Run", "Unknown"}}

\* a message set by update_status that a timer is to clear
Clearable(label) ==
  label.text \notin {"", "Ready."} /\ ~IsErrorStatus(label.text)

TimerClearsOnlyItsOwn ==
  (TimerFire /\ app = "gbi") =>
    /\ IsErrorStatus(status_label.text) => status_label' = status_label
    /\ status_label.text # "" => status_age = AfterDelay

\* C12: in the bidirectional window a non-error status message is cleared 3
\* seconds after it was set; a timer never clears a status message that has
\* Error in it or reports a failed conversion, and a timer scheduled for an
\* earlier message never erases a later one.
C12_StatusTimers ==
  /\ []((app = "gbi" /\ Clearable(status_label)) => status_age <= AfterDelay)
  /\ [][TimerClearsOnlyItsOwn]_vars

VerdictAgrees ==
  /\ (/\ PerformConversion
      /\ ~IsBlank(input_text)
      /\ ~Conversion(StripText(input_text)).raises)
       => LET c == Conversion(StripText(input_text))
          IN /\ c.output_text.tag = "error"
                  => status_label'.text = StatusFailed(c.conversion_direction)
             /\ c.output_text.tag = "ok"
                  => status_label'.text = StatusSuccessful(c.conversion_direction)
  /\ ((CopyToClipboard \/ GuiCopyToClipboard) /\ output_text.tag = "ok")
       => clipboard' = output_text

\* C13: after every Convert the status reports failure exactly when the
\* converter returned an error or the input was unrecognized, and every
\* successful output, whatever its text, is reported successful and is
\* copied by a following Copy.
C13_VerdictAgrees == [][VerdictAgrees]_vars

====
